---- MODULE Spec2Model ----
(***************************************************************************)
(* Ship Proxy System: the framing codec and serialized sender of           *)
(* protocol.js, the ship's FIFO scheduler and CONNECT handler of           *)
(* ship_proxy.js, and the per-link dispatcher of offshore_proxy.js.        *)
(*                                                                         *)
(* SpecSender : one MessageSendQueue on one socket, concurrent enqueues,   *)
(*              backpressure (write returns false, drain), socket failure. *)
(* Spec       : ship + link + offshore; every action is one event-loop     *)
(*              callback together with the promise continuations it        *)
(*              releases.                                                  *)
(***************************************************************************)
EXTENDS Integers, Sequences, FiniteSets, TLC

\* ------------------------------------------------------------------ bounds
\* enqueue calls made on the sender under SpecSender
MaxSends == 3
\* longest payload handed to the sender under SpecSender
MaxPayloadLen == 1
\* client HTTP requests arriving at the ship under Spec
NumReqs == 2
\* client CONNECT requests arriving at the ship under Spec
NumConnects == 2
\* link sockets the ship creates under Spec (the first connection and the reconnects)
MaxLinks == 2
\* chunks a tunnel client, and a tunnel upstream, sends under Spec
MaxTunnelData == 2
\* RESPONSE frames that one socket data event carries to the ship's decoder
MaxChunk == 2
\* what the environment does in one behaviour of Spec: client requests, CONNECTs,
\* tunnel chunks and reconnects, together
MaxLoad == 3
\* messages the peer encodes back to back on one link under SpecDecoder and SpecRelink
MaxMsgs == 3
\* longest payload of those messages
MaxFramePayload == 1
\* REQUEST frames one link's dispatcher receives under SpecOffshore
MaxFrames == 3
\* chunks one upstream socket sends under SpecOffshore
MaxUpChunks == 1

\* ------------------------------------------------------- program constants
REQUEST == 0
RESPONSE == 1
HEADER_LENGTH == 5

\* payload bytes; the header bytes of a frame are 0, a length or a type
Bytes == {7}
MessageTypes == {REQUEST, RESPONSE}
\* payload bytes of the decoder's input: values that are also header bytes
WireBytes == {0, 1}

VARIABLES
    \* ---- SpecSender
    sq,          \* the MessageSendQueue: queue, isSending, and the sendMessage promises not yet settled
    sockAlive,   \* the sender's socket has neither errored nor closed
    wire,        \* the bytes handed to socket.write, in order
    enq,         \* ghost: the messages passed to enqueue, in call order
    outcome,     \* ghost: per enqueue call, "pending" | "resolved" | "rejected"
    \* ---- Spec: the ship
    shipUp,      \* the ship process has not died of an uncaught exception
    rq,          \* requestQueue: queue (of request ids) and processing
    immediates,  \* setImmediate(() => this.processNext()) callbacks not yet run
    inTunnel,    \* offshore.inTunnel
    shipSq,      \* offshore.queue, the MessageSendQueue of the current link socket
    listeners,   \* offshore.decoder's "message" listeners, in registration order
    reqState,    \* per client request: idle, reading, queued, sending, waiting, done
    conState,    \* per CONNECT: idle, sending, awaiting, sendingHead, tunnel, ended, clientClosed, closed
    conHead,     \* per CONNECT: the server read bytes past the CONNECT request (head)
    cliLog,      \* per CONNECT: what the ship wrote to the client socket
    dataSent,    \* per CONNECT: chunks the client has sent into its tunnel
    \* ---- Spec: the link
    linkUp,      \* the current link socket is open
    links,       \* link sockets created so far
    s2o,         \* REQUEST frames on the link, ship to offshore
    o2s,         \* RESPONSE frames on the link, offshore to ship
    \* ---- Spec: the offshore dispatcher of the current link
    offInTunnel, \* inTunnel
    tunnelUpstream, \* tunnelUpstream: 0 for null, else the CONNECT whose upstream it is
    upState,     \* per CONNECT: its upstream socket: none, connecting, open, closed, orphan
    upGot,       \* per CONNECT: payloads written to its upstream socket
    upSent,      \* per CONNECT: chunks its upstream has sent
    fetches,     \* requests whose origin fetch is under way
    \* ---- Spec: ghosts
    accepted,    \* request ids in the order the HTTP server accepted them
    reqEmit,     \* transaction REQUEST frames in the order they were handed to a link socket, and which
    respLog,     \* request ids in the order their client responses were ended
    got,         \* per request: the frame the scheduler treated as its response
    lateReq,     \* per request: accepted after the client of an established tunnel closed
    \* ---- SpecDecoder, SpecRelink: one FrameDecoder and the socket that feeds it
    buffer,      \* decoder._buffer
    emitted,     \* the messages the decoder has emitted on the current link socket
    peerMsgs,    \* ghost: the messages the peer encoded on the current link socket
    unread,      \* the encoded bytes the socket has not delivered yet
    fed,         \* bytes the current link socket has delivered to decoder.push
    decLinks,    \* link sockets that have fed this decoder
    \* ---- SpecOffshore: the offshore's closure for one link socket
    disp         \* linkUp, inTunnel, tunnelUpstream, queue, and what the dispatcher started

senderVars == <<sq, sockAlive, wire, enq, outcome>>
shipCore == <<rq, immediates, inTunnel, shipSq, listeners, reqState, conState, cliLog,
              reqEmit, respLog, got>>
shipVars == <<shipCore, s2o>>
offVars == <<offInTunnel, tunnelUpstream, upState, upGot, upSent, fetches>>
sysVars == <<shipUp, shipVars, conHead, dataSent, linkUp, links, o2s, offVars, accepted, lateReq>>
decVars == <<buffer, emitted, peerMsgs, unread, fed, decLinks>>
vars == <<senderVars, sysVars, decVars, disp>>

Reqs == 1..NumReqs
Cons == 1..NumConnects

RECURSIVE Sum(_, _)
Sum(f, S) == IF S = {} THEN 0 ELSE LET x == CHOOSE y \in S : TRUE IN f[x] + Sum(f, S \ {x})

\* what the environment has done so far: client requests, CONNECTs, tunnel
\* chunks in both directions, link reconnects
Load ==
    Len(accepted) + Cardinality({c \in Cons : conState[c] # "idle"})
    + Sum(dataSent, Cons) + Sum(upSent, Cons) + (links - 1)

\* ------------------------------------------------------------------ helpers
RECURSIVE SeqsUpTo(_, _)
SeqsUpTo(S, n) ==
    IF n = 0 THEN {<<>>}
    ELSE LET shorter == SeqsUpTo(S, n - 1)
         IN  shorter \cup {Append(s, b) : s \in {t \in shorter : Len(t) = n - 1}, b \in S}

Payloads == SeqsUpTo(Bytes, MaxPayloadLen)

\* ------------------------------------------------------------ framing codec
\* header.writeUInt32BE(payload.length, 0); header.writeUInt8(messageType, 4)
encodeMessage(messageType, payload) ==
    LET n == Len(payload)
    IN  << (n \div 16777216) % 256, (n \div 65536) % 256, (n \div 256) % 256, n % 256,
           messageType % 256 >> \o payload

\* mutant: the length is read least significant byte first
readUInt32LE(buf) ==
    buf[4] * 16777216 + buf[3] * 65536 + buf[2] * 256 + buf[1]
\* this._buffer.readUInt32BE(0)
readUInt32BE(buf) ==
    buf[1] * 16777216 + buf[2] * 65536 + buf[3] * 256 + buf[4]

\* buf.subarray(start, end): both indices are clamped to the buffer
subarray(buf, start, end) ==
    LET e == IF end > Len(buf) THEN Len(buf) ELSE end
    IN  IF start >= e THEN <<>> ELSE SubSeq(buf, start + 1, e)

\* mutant: the decoder does not wait for the payload
FrameIncompleteNever(buf, total) == FALSE
\* if (this._buffer.length < total) break;
FrameIncomplete(buf, total) == Len(buf) < total

\* FrameDecoder._parseAvailableFrames: the messages emitted from _buffer, and
\* the bytes left in it
RECURSIVE parseAvailableFrames(_)
parseAvailableFrames(buf) ==
    IF Len(buf) < HEADER_LENGTH THEN [msgs |-> <<>>, rest |-> buf]
    ELSE LET length == readUInt32BE(buf)
             type   == buf[5]
             total  == HEADER_LENGTH + length
         IN  IF FrameIncomplete(buf, total) THEN [msgs |-> <<>>, rest |-> buf]
             ELSE LET r == parseAvailableFrames(subarray(buf, total, Len(buf)))
                  IN  [msgs |-> <<[type |-> type, payload |-> subarray(buf, HEADER_LENGTH, total)]>>
                                \o r.msgs,
                       rest |-> r.rest]

\* ------------------------------------------------------- MessageSendQueue
\* A queue item is a record with at least an id; an entry of inflight is a
\* sendMessage promise that has not settled:
\*   stage "cb"      write returned true: settles in the write callback
\*   stage "full"    write returned false: the callback returns early, drain settles
\*   stage "flushed" write returned false and the callback has run; drain settles
\*   dead            the socket was already destroyed: the write callback gets an error
SQNew == [queue |-> <<>>, isSending |-> FALSE, inflight |-> {}]

\* mutant: the writer never records that it is running
SQMarkSendingForgets(s) == s
\* _dequeueAndSend: this.isSending = true
SQMarkSending(s) == [s EXCEPT !.isSending = TRUE]

\* mutant: the writer takes the newest item
SQShiftLast(q) == [item |-> q[Len(q)], rest |-> SubSeq(q, 1, Len(q) - 1)]
\* const item = this.queue.shift()
SQShift(q) == [item |-> Head(q), rest |-> Tail(q)]

\* mutant: the writer leaves without clearing its running mark
SQLeaveKeeps(s) == s
\* _dequeueAndSend: finally { this.isSending = false; }
SQLeave(s) == [s EXCEPT !.isSending = FALSE]

\* One turn of the writer loop from its `while` test: either shift an item and
\* call sendMessage (which calls socket.write synchronously), or leave through
\* `finally`. wrote is what was handed to a live socket.
SQLoop(s, ok, alive) ==
    IF Len(s.queue) > 0
    THEN LET sh == SQShift(s.queue)
         IN  [s |-> [s EXCEPT !.queue = sh.rest,
                              !.inflight = @ \cup {[item |-> sh.item,
                                                    stage |-> IF ok \/ ~alive THEN "cb" ELSE "full",
                                                    dead |-> ~alive]}],
              wrote |-> IF alive THEN <<sh.item>> ELSE <<>>]
    ELSE [s |-> SQLeave(s), wrote |-> <<>>]

\* _dequeueAndSend up to its first await
SQDequeueAndSend(s, ok, alive) ==
    IF s.isSending THEN [s |-> s, wrote |-> <<>>]
    ELSE SQLoop(SQMarkSending(s), ok, alive)

\* enqueue(type, payload)
SQEnqueue(s, item, ok, alive) ==
    LET pushed == [s EXCEPT !.queue = Append(@, item)]
    IN  IF ~pushed.isSending THEN SQDequeueAndSend(pushed, ok, alive)
        ELSE [s |-> pushed, wrote |-> <<>>]

\* the awaited sendMessage of entry x settles (resolve or reject): the loop
\* calls item.resolve / item.reject and goes round again
SQSettle(s, x, ok, alive) ==
    SQLoop([s EXCEPT !.inflight = @ \ {x}], ok, alive)

\* ---------------------------------------------------------------- SpecSender
RECURSIVE FramesOf(_)
FramesOf(items) ==
    IF items = <<>> THEN <<>>
    ELSE encodeMessage(Head(items).type, Head(items).payload) \o FramesOf(Tail(items))

SndInit ==
    /\ sq = SQNew
    /\ sockAlive = TRUE
    /\ wire = <<>>
    /\ enq = <<>>
    /\ outcome = <<>>

\* a caller invokes queue.enqueue(type, payload)
SndEnqueue(t, p, ok) ==
    /\ Len(enq) < MaxSends
    /\ LET item == [id |-> Len(enq) + 1, type |-> t, payload |-> p,
                    behindDrain |-> \E x \in sq.inflight : x.stage \in {"full", "flushed"}]
           r    == SQEnqueue(sq, item, ok, sockAlive)
       IN  /\ sq' = r.s
           /\ wire' = wire \o FramesOf(r.wrote)
           /\ enq' = Append(enq, item)
           /\ outcome' = Append(outcome, "pending")
    /\ UNCHANGED <<sockAlive, sysVars, decVars, disp>>

\* mutant: the write callback ignores its err argument
WriteCallbackIgnoresErr(x) == "resolved"
\* (err) => { if (err) { cleanup(); reject(err); return; } ... resolve(); }
WriteCallbackOutcome(x) == IF x.dead THEN "rejected" ELSE "resolved"

\* the callback passed to socket.write runs
SndWriteCallback(x, ok) ==
    /\ x \in sq.inflight
    /\ x.stage \in {"cb", "full"}
    /\ IF x.stage = "full"
       THEN \* if (ok === false) return;
            /\ sq' = [sq EXCEPT !.inflight = (@ \ {x}) \cup {[x EXCEPT !.stage = "flushed"]}]
            /\ UNCHANGED <<wire, outcome>>
       ELSE LET r == SQSettle(sq, x, ok, sockAlive)
            IN  /\ sq' = r.s
                /\ wire' = wire \o FramesOf(r.wrote)
                /\ outcome' = [outcome EXCEPT ![x.item.id] = WriteCallbackOutcome(x)]
    /\ UNCHANGED <<sockAlive, enq, sysVars, decVars, disp>>

\* the socket emits drain: onDrain resolves the send that saw write return false
SndDrain(x, ok) ==
    /\ sockAlive
    /\ x \in sq.inflight
    /\ x.stage \in {"full", "flushed"}
    /\ LET r == SQSettle(sq, x, ok, sockAlive)
       IN  /\ sq' = r.s
           /\ wire' = wire \o FramesOf(r.wrote)
    /\ outcome' = [outcome EXCEPT ![x.item.id] = "resolved"]
    /\ UNCHANGED <<sockAlive, enq, sysVars, decVars, disp>>

\* the socket emits error and close: onError / onClose reject every send that
\* is listening; each loop then goes on with a destroyed socket
RECURSIVE SQFailAll(_, _)
SQFailAll(s, xs) ==
    IF xs = {} THEN s
    ELSE LET x == CHOOSE y \in xs : TRUE
         IN  SQFailAll(SQSettle(s, x, TRUE, FALSE).s, xs \ {x})

SndSocketFail ==
    /\ sockAlive
    /\ sockAlive' = FALSE
    /\ LET live == {x \in sq.inflight : ~x.dead}
       IN  /\ sq' = SQFailAll(sq, live)
           /\ outcome' = [i \in DOMAIN outcome |->
                            IF \E x \in live : x.item.id = i THEN "rejected" ELSE outcome[i]]
    /\ UNCHANGED <<wire, enq, sysVars, decVars, disp>>

\* ------------------------------------------------------------------ payloads
\* Frames carry tags instead of bytes: which request or tunnel a payload
\* belongs to, and for a reply the status line it starts with.
HttpReq(r)      == [k |-> "http", id |-> r]
ConnectReq(c)   == [k |-> "connect", id |-> c]
HeadBytes(c)    == [k |-> "data", id |-> c, n |-> 0]
ClientBytes(c, n) == [k |-> "data", id |-> c, n |-> n]
Reply(p, st)    == [k |-> "reply", to |-> p, status |-> st]
ConnectOK(c)    == [k |-> "reply", to |-> ConnectReq(c), status |-> 200]
UpBytes(c, n)   == [k |-> "tdata", id |-> c, n |-> n]
EmptyFrame(c)   == [k |-> "empty", id |-> c]
Established     == [k |-> "established"]
NoResponse      == [k |-> "none"]
Failure         == [k |-> "error"]

ReqOwner(r) == [k |-> "req", id |-> r]
ConOwner(c) == [k |-> "con", id |-> c]

\* /^HTTP\/\d\.\d\s+200/i.test(text)
Is200(f) == f.k = "reply" /\ f.status = 200
\* payload && payload.length
NonEmpty(f) == f.k # "empty"

\* a tunnel of CONNECT c is being established or is active on the ship
TunnelLive(st) == st \in {"sending", "awaiting", "sendingHead", "tunnel"}

\* ------------------------------------------------------------- ship handlers
\* The ship's handlers are operators on a record S of the ship's state; S.alive
\* says whether the link socket is open, S.micro is the microtask queue of
\* settled awaits whose continuations have not run yet.
Cur ==
    [rq |-> rq, immediates |-> immediates, inTunnel |-> inTunnel, sq |-> shipSq,
     listeners |-> listeners, reqState |-> reqState, conState |-> conState,
     cliLog |-> cliLog, s2o |-> s2o, reqEmit |-> reqEmit, respLog |-> respLog,
     got |-> got, alive |-> linkUp, micro |-> <<>>]

Commit(S) ==
    /\ rq' = S.rq
    /\ immediates' = S.immediates
    /\ inTunnel' = S.inTunnel
    /\ shipSq' = S.sq
    /\ listeners' = S.listeners
    /\ reqState' = S.reqState
    /\ conState' = S.conState
    /\ cliLog' = S.cliLog
    /\ s2o' = S.s2o
    /\ reqEmit' = S.reqEmit
    /\ respLog' = S.respLog
    /\ got' = S.got

\* socket.write(framed) by the link's sender: the frame is on the link
ShipWrote(S, items) ==
    IF items = <<>> THEN S
    ELSE LET it == items[1]
         IN  [S EXCEPT !.s2o = Append(@, it.payload),
                       !.reqEmit = IF it.owner.k = "req"
                                   THEN Append(@, [id |-> it.owner.id,
                                                   during |-> {c \in Cons : TunnelLive(S.conState[c])},
                                                   link |-> links])
                                   ELSE @]

\* offshore.sendRequest(payload) / offshore.queue.enqueue(REQUEST, payload)
ShipEnqueue(S, owner, payload) ==
    LET r == SQEnqueue(S.sq, [owner |-> owner, payload |-> payload], TRUE, S.alive)
    IN  ShipWrote([S EXCEPT !.sq = r.s], r.wrote)

\* mutant: the scheduler forgets that an item is being processed
processNextReturnsIgnoresProcessing(S) ==
    Len(S.rq.queue) = 0 \/ S.inTunnel
\* if (this.processing || this.queue.length === 0 || offshore.inTunnel) return;
processNextReturns(S) ==
    S.rq.processing \/ Len(S.rq.queue) = 0 \/ S.inTunnel

\* mutant: the item stays in the queue
RQShiftKeeps(q) == q
\* const item = this.queue.shift(): what is left in the queue
RQShift(q) == Tail(q)

\* RequestQueue.processNext up to its first await
processNext(S) ==
    IF processNextReturns(S) THEN S
    ELSE LET r == Head(S.rq.queue)
         IN  ShipEnqueue([S EXCEPT !.rq = [queue |-> RQShift(S.rq.queue), processing |-> TRUE],
                                   !.reqState[r] = "sending"],
                         ReqOwner(r), HttpReq(r))

\* processNext from the response (or the catch) through finally: the client
\* response is written and ended, processing is cleared, processNext is
\* scheduled with setImmediate
FinishItem(S, r, what) ==
    [S EXCEPT !.got[r] = what,
              !.respLog = Append(@, r),
              !.reqState[r] = "done",
              !.rq.processing = FALSE,
              !.immediates = @ + 1]

\* waitForSingleResponse(): decoder.on("message", onMessage); offshore.once("error", onError)
waitForSingleResponse(S, owner) ==
    [S EXCEPT !.listeners = Append(@, [kind |-> "wait", owner |-> owner])]

\* CONNECT handler, catch: clientSocket.end(); offshore.inTunnel = false
ConnectCatch(S, c) ==
    [S EXCEPT !.conState[c] = "closed", !.inTunnel = FALSE]

\* CONNECT handler from registering onClientData to the end of the try block
EnterTunnel(S, c) ==
    [S EXCEPT !.conState[c] = "tunnel",
              !.listeners = Append(@, [kind |-> "tunnel", owner |-> ConOwner(c)])]

\* the continuation of an awaited send of the link's sender
AfterSend(S, item, sent) ==
    LET o == item.owner
    IN  CASE o.k = "req" ->
               IF sent THEN [waitForSingleResponse(S, o) EXCEPT !.reqState[o.id] = "waiting"]
               ELSE FinishItem(S, o.id, Failure)
          [] o.k = "con" ->
               IF sent THEN [waitForSingleResponse(S, o) EXCEPT !.conState[o.id] = "awaiting"]
               ELSE ConnectCatch(S, o.id)
          [] o.k = "head" ->
               IF sent THEN EnterTunnel(S, o.id) ELSE ConnectCatch(S, o.id)
          [] OTHER -> S   \* onClientData: try { await ... } catch {}

\* the continuation of an awaited waitForSingleResponse that resolved with f
AfterResponse(S, o, f) ==
    IF o.k = "req" THEN FinishItem(S, o.id, f)
    ELSE IF ~Is200(f)
         THEN [S EXCEPT !.cliLog[o.id] = Append(@, f),
                        !.conState[o.id] = "closed",
                        !.inTunnel = FALSE]
         ELSE LET S1 == [S EXCEPT !.cliLog[o.id] = Append(@, Established)]
              IN  IF conHead[o.id]
                  THEN [ShipEnqueue(S1, [k |-> "head", id |-> o.id], HeadBytes(o.id))
                          EXCEPT !.conState[o.id] = "sendingHead"]
                  ELSE EnterTunnel(S1, o.id)

\* the continuation of an awaited waitForSingleResponse that rejected
AfterError(S, o) ==
    IF o.k = "req" THEN FinishItem(S, o.id, Failure) ELSE ConnectCatch(S, o.id)

\* run the microtask queue
RECURSIVE RunMicro(_)
RunMicro(S) ==
    IF S.micro = <<>> THEN S
    ELSE LET m    == Head(S.micro)
             rest == [S EXCEPT !.micro = Tail(@)]
         IN  RunMicro(IF m.ok THEN AfterResponse(rest, m.owner, m.frame)
                      ELSE AfterError(rest, m.owner))

Without(seq, l) == SelectSeq(seq, LAMBDA x : x # l)

\* mutant: what is written last comes out first
ClientWriteFirst(log, f) == <<f>> \o log
\* clientSocket.write(payload)
ClientWrite(log, f) == Append(log, f)

\* one listener of the decoder's "message" event is called with a RESPONSE frame
CallListener(S, l, f) ==
    IF l.kind = "wait"
    THEN \* onMessage of waitForSingleResponse: cleanup(); resolve(payload)
         [S EXCEPT !.listeners = Without(@, l),
                   !.micro = Append(@, [ok |-> TRUE, owner |-> l.owner, frame |-> f])]
    ELSE \* onMessage of the tunnel
         IF S.inTunnel /\ NonEmpty(f)
         THEN [S EXCEPT !.cliLog[l.owner.id] = ClientWrite(@, f)]
         ELSE S

RECURSIVE CallListeners(_, _, _)
CallListeners(S, ls, f) ==
    IF ls = <<>> THEN S
    ELSE CallListeners(CallListener(S, Head(ls), f), Tail(ls), f)

\* decoder.push(chunk): this.emit("message", ...) once per frame of the chunk,
\* each to the listeners registered at that moment
RECURSIVE EmitFrames(_, _)
EmitFrames(S, frames) ==
    IF frames = <<>> THEN S
    ELSE EmitFrames(CallListeners(S, S.listeners, Head(frames)), Tail(frames))

\* the link socket emits "error": offshore.emit("error", e) calls every onError
RECURSIVE RejectWaits(_, _)
RejectWaits(S, ls) ==
    IF ls = <<>> THEN S
    ELSE LET l == Head(ls)
         IN  RejectWaits(IF l.kind = "wait"
                         THEN [S EXCEPT !.listeners = Without(@, l),
                                        !.micro = Append(@, [ok |-> FALSE, owner |-> l.owner])]
                         ELSE S,
                         Tail(ls))

\* the link socket emits "close": offshore.emit("close") calls every onOffshoreClose
RECURSIVE CloseTunnels(_, _)
CloseTunnels(S, ls) ==
    IF ls = <<>> THEN S
    ELSE LET l == Head(ls)
         IN  CloseTunnels(IF l.kind = "tunnel"
                          THEN [S EXCEPT !.listeners = Without(@, l),
                                         !.inTunnel = FALSE,
                                         !.conState[l.owner.id] = "ended"]
                          ELSE S,
                          Tail(ls))

\* onError / onClose of sendMessage reject the sends in flight; each writer loop
\* goes on with the destroyed socket, each owner's await throws
RECURSIVE RejectSends(_, _)
RejectSends(S, xs) ==
    IF xs = {} THEN S
    ELSE LET x == CHOOSE y \in xs : TRUE
             r == SQSettle(S.sq, x, TRUE, FALSE)
         IN  RejectSends(AfterSend([S EXCEPT !.sq = r.s], x.item, FALSE), xs \ {x})

HasWait(ls) == \E i \in 1..Len(ls) : ls[i].kind = "wait"

\* ------------------------------------------------------------------ Spec
SysInit ==
    /\ shipUp = TRUE
    /\ rq = [queue |-> <<>>, processing |-> FALSE]
    /\ immediates = 0
    /\ inTunnel = FALSE
    /\ shipSq = SQNew
    /\ listeners = <<>>
    /\ reqState = [r \in Reqs |-> "idle"]
    /\ conState = [c \in Cons |-> "idle"]
    /\ conHead = [c \in Cons |-> FALSE]
    /\ cliLog = [c \in Cons |-> <<>>]
    /\ dataSent = [c \in Cons |-> 0]
    /\ linkUp = TRUE
    /\ links = 1
    /\ s2o = <<>>
    /\ o2s = <<>>
    /\ offInTunnel = FALSE
    /\ tunnelUpstream = 0
    /\ upState = [c \in Cons |-> "none"]
    /\ upGot = [c \in Cons |-> <<>>]
    /\ upSent = [c \in Cons |-> 0]
    /\ fetches = {}
    /\ accepted = <<>>
    /\ reqEmit = <<>>
    /\ respLog = <<>>
    /\ got = [r \in Reqs |-> NoResponse]
    /\ lateReq = [r \in Reqs |-> FALSE]

\* new FrameDecoder(), fed by a link socket that carries the encoding of msgs
DecInit(msgs) ==
    /\ buffer = <<>>
    /\ emitted = <<>>
    /\ peerMsgs = msgs
    /\ unread = FramesOf(msgs)
    /\ fed = 0
    /\ decLinks = 1

Frames == 1..MaxFrames

\* net.createServer((socket) => { ... }): the closure of one accepted link
\* socket. got, log and the per-frame maps record what the dispatcher did with
\* each REQUEST frame, by arrival number.
DispInit ==
    disp = [linkUp |-> TRUE,
            inTunnel |-> FALSE,
            tunnelUpstream |-> 0,
            queue |-> SQNew,
            direct |-> {},
            up |-> [q \in Frames |-> "none"],
            upSent |-> [q \in Frames |-> 0],
            fetches |-> {},
            got |-> <<>>,
            log |-> <<>>]

Init == SysInit /\ SndInit /\ DecInit(<<>>) /\ DispInit

\* http.createServer callback: a client request is accepted, its body is being read
AcceptRequest(r) ==
    /\ shipUp
    /\ reqState[r] = "idle"
    /\ r = Len(accepted) + 1
    /\ Load < MaxLoad
    /\ reqState' = [reqState EXCEPT ![r] = "reading"]
    /\ accepted' = Append(accepted, r)
    /\ lateReq' = [lateReq EXCEPT ![r] = \E c \in Cons : conState[c] = "clientClosed"]
    /\ UNCHANGED <<senderVars, decVars, disp, shipUp, rq, immediates, inTunnel, shipSq, listeners, conState,
                   cliLog, s2o, reqEmit, respLog, got, conHead, dataSent, linkUp, links, o2s,
                   offVars>>

\* req.on("end"): the body is complete; serialize, requestQueue.enqueue, processNext
RequestEnd(r) ==
    /\ shipUp
    /\ reqState[r] = "reading"
    /\ Commit(processNext([Cur EXCEPT !.rq.queue = Append(@, r), !.reqState[r] = "queued"]))
    /\ UNCHANGED <<senderVars, decVars, disp, shipUp, conHead, dataSent, linkUp, links, o2s, offVars,
                   accepted, lateReq>>

\* setImmediate(() => this.processNext())
RunImmediate ==
    /\ shipUp
    /\ immediates > 0
    /\ Commit(processNext([Cur EXCEPT !.immediates = @ - 1]))
    /\ UNCHANGED <<senderVars, decVars, disp, shipUp, conHead, dataSent, linkUp, links, o2s, offVars,
                   accepted, lateReq>>

\* server.on("connect") up to `await offshore.sendRequest(raw)`
Connect(c, head) ==
    /\ shipUp
    /\ conState[c] = "idle"
    /\ \A d \in 1..(c - 1) : conState[d] # "idle"
    /\ Load < MaxLoad
    /\ conHead' = [conHead EXCEPT ![c] = head]
    /\ Commit(ShipEnqueue([Cur EXCEPT !.inTunnel = TRUE, !.conState[c] = "sending"],
                          ConOwner(c), ConnectReq(c)))
    /\ UNCHANGED <<senderVars, decVars, disp, shipUp, dataSent, linkUp, links, o2s, offVars, accepted, lateReq>>

\* the write callback of the link sender's send in flight: the send settles,
\* the writer loop goes round, the owner's await returns (or throws)
ShipSendSettles(x) ==
    /\ shipUp
    /\ x \in shipSq.inflight
    /\ LET r  == SQSettle(shipSq, x, TRUE, linkUp)
           S1 == ShipWrote([Cur EXCEPT !.sq = r.s], r.wrote)
       IN  Commit(AfterSend(S1, x.item, ~x.dead))
    /\ UNCHANGED <<senderVars, decVars, disp, shipUp, conHead, dataSent, linkUp, links, o2s, offVars,
                   accepted, lateReq>>

\* sock.on("data"): one chunk of n frames reaches offshore.decoder.push
ShipData(n) ==
    /\ shipUp /\ linkUp
    /\ n >= 1 /\ n <= Len(o2s)
    /\ Commit(RunMicro(EmitFrames(Cur, SubSeq(o2s, 1, n))))
    /\ o2s' = SubSeq(o2s, n + 1, Len(o2s))
    /\ UNCHANGED <<senderVars, decVars, disp, shipUp, conHead, dataSent, linkUp, links, offVars,
                   accepted, lateReq>>

\* clientSocket.on("data") of an active tunnel
ClientData(c) ==
    /\ shipUp
    /\ conState[c] = "tunnel"
    /\ dataSent[c] < MaxTunnelData
    /\ Load < MaxLoad
    /\ dataSent' = [dataSent EXCEPT ![c] = @ + 1]
    /\ Commit(ShipEnqueue(Cur, [k |-> "data", id |-> c], ClientBytes(c, dataSent[c] + 1)))
    /\ UNCHANGED <<senderVars, decVars, disp, shipUp, conHead, linkUp, links, o2s, offVars, accepted, lateReq>>

\* clientSocket "close" (after "error" or not): onClientError / onClientClose
ClientClose(c) ==
    /\ shipUp
    /\ conState[c] \in {"tunnel", "ended"}
    /\ Commit([Cur EXCEPT !.listeners = Without(@, [kind |-> "tunnel", owner |-> ConOwner(c)]),
                          !.inTunnel = FALSE,
                          !.conState[c] = IF conState[c] = "tunnel" THEN "clientClosed" ELSE "closed"])
    /\ UNCHANGED <<senderVars, decVars, disp, shipUp, conHead, dataSent, linkUp, links, o2s, offVars,
                   accepted, lateReq>>

\* the offshore's side of a link close: socket.on("close") destroys
\* tunnelUpstream, whose close event clears the dispatcher's state; the
\* dispatcher of a closed link receives nothing more
OffshoreLinkClosed ==
    /\ offInTunnel' = FALSE
    /\ tunnelUpstream' = 0
    /\ upState' = [c \in Cons |->
                     IF upState[c] \in {"connecting", "open"}
                     THEN (IF c = tunnelUpstream THEN "closed" ELSE "orphan")
                     ELSE upState[c]]
    /\ fetches' = {}
    /\ UNCHANGED <<upGot, upSent>>

\* the link socket closes, after an error (withError) or not. On the ship:
\* sock "error" -> offshore.emit("error") (uncaught when nobody listens) and
\* sendMessage's onError; sock "close" -> offshore.emit("close"), setTimeout
\* reconnect, sendMessage's onClose; then the continuations.
LinkClose(withError) ==
    /\ linkUp
    /\ linkUp' = FALSE
    /\ o2s' = <<>>
    /\ OffshoreLinkClosed
    /\ IF ~shipUp
       THEN /\ s2o' = <<>>
            /\ UNCHANGED <<shipUp, shipCore>>
       ELSE IF withError /\ ~HasWait(listeners)
       THEN /\ shipUp' = FALSE
            /\ s2o' = <<>>
            /\ UNCHANGED shipCore
       ELSE LET S0 == [Cur EXCEPT !.alive = FALSE, !.s2o = <<>>]
                S1 == IF withError THEN RejectWaits(S0, S0.listeners) ELSE S0
                S2 == CloseTunnels(S1, S1.listeners)
                S3 == RunMicro(S2)
                S4 == RejectSends(S3, {x \in S3.sq.inflight : ~x.dead})
            IN  /\ Commit(S4)
                /\ UNCHANGED shipUp
    /\ UNCHANGED <<senderVars, decVars, disp, conHead, dataSent, links, accepted, lateReq>>

\* setTimeout(() => this._connect(), 1000): a new socket and a new
\* MessageSendQueue; the decoder and its listeners stay. The offshore accepts
\* the socket with a fresh dispatcher.
Reconnect ==
    /\ shipUp
    /\ ~linkUp
    /\ links < MaxLinks
    /\ Load < MaxLoad
    /\ shipSq.inflight = {}
    /\ linkUp' = TRUE
    /\ links' = links + 1
    /\ shipSq' = SQNew
    /\ UNCHANGED <<senderVars, decVars, disp, shipUp, rq, immediates, inTunnel, listeners, reqState, conState,
                   cliLog, s2o, reqEmit, respLog, got, conHead, dataSent, o2s, offVars,
                   accepted, lateReq>>

\* queue.enqueue(MessageType.RESPONSE, payload) on the offshore: the link's
\* sender writes the frames in enqueue order; on a closed socket the send fails
OffSend(f) == o2s' = IF linkUp THEN Append(o2s, f) ELSE o2s

\* decoder.on("message") of the offshore dispatcher, for one REQUEST frame
OffshoreMessage ==
    /\ linkUp
    /\ s2o # <<>>
    /\ s2o' = Tail(s2o)
    /\ LET f == Head(s2o)
       IN  IF offInTunnel /\ tunnelUpstream # 0
           THEN \* tunnelUpstream.write(payload)
                /\ upGot' = [upGot EXCEPT ![tunnelUpstream] = Append(@, f)]
                /\ UNCHANGED <<o2s, upState, fetches>>
           ELSE IF f.k = "connect"
           THEN \* net.connect({ host, port }, ...)
                /\ upState' = [upState EXCEPT ![f.id] = "connecting"]
                /\ UNCHANGED <<o2s, upGot, fetches>>
           ELSE IF f.k = "http"
           THEN \* agent.request(options, ...)
                /\ fetches' = fetches \cup {f.id}
                /\ UNCHANGED <<o2s, upState, upGot>>
           ELSE \* tunnel bytes parsed as HTTP: chooseAgentAndOptions throws, catch sends 500
                /\ OffSend(Reply(f, 500))
                /\ UNCHANGED <<upState, upGot, fetches>>
    /\ UNCHANGED <<senderVars, decVars, disp, shipUp, rq, immediates, inTunnel, shipSq, listeners, reqState,
                   conState, cliLog, reqEmit, respLog, got, conHead, dataSent, linkUp, links,
                   offInTunnel, tunnelUpstream, upSent, accepted, lateReq>>

\* the origin answers (upRes "end"): status 200, or upstreamReq "error": synthesized 502
FetchDone(r, status) ==
    /\ r \in fetches
    /\ fetches' = fetches \ {r}
    /\ OffSend(Reply(HttpReq(r), status))
    /\ UNCHANGED <<senderVars, decVars, disp, shipUp, shipVars, conHead, dataSent, linkUp, links,
                   offInTunnel, tunnelUpstream, upState, upGot, upSent, accepted, lateReq>>

\* the connect callback of net.connect
UpstreamConnect(c) ==
    /\ upState[c] = "connecting"
    /\ upState' = [upState EXCEPT ![c] = "open"]
    /\ offInTunnel' = TRUE
    /\ tunnelUpstream' = c
    /\ OffSend(ConnectOK(c))
    /\ UNCHANGED <<senderVars, decVars, disp, shipUp, shipVars, conHead, dataSent, linkUp, links,
                   upGot, upSent, fetches, accepted, lateReq>>

\* upstream.on("data")
UpstreamData(c) ==
    /\ upState[c] = "open"
    /\ upSent[c] < MaxTunnelData
    /\ Load < MaxLoad
    /\ upSent' = [upSent EXCEPT ![c] = @ + 1]
    /\ OffSend(UpBytes(c, upSent[c] + 1))
    /\ UNCHANGED <<senderVars, decVars, disp, shipUp, shipVars, conHead, dataSent, linkUp, links,
                   offInTunnel, tunnelUpstream, upState, upGot, fetches, accepted, lateReq>>

\* upstream "close", after upstream "error" (an empty RESPONSE frame) or not
UpstreamClose(c, withError) ==
    /\ upState[c] \in {"connecting", "open"}
    /\ withError \/ upState[c] = "open"
    /\ upState' = [upState EXCEPT ![c] = "closed"]
    /\ offInTunnel' = FALSE
    /\ tunnelUpstream' = 0
    /\ IF withError THEN OffSend(EmptyFrame(c)) ELSE UNCHANGED o2s
    /\ UNCHANGED <<senderVars, decVars, disp, shipUp, shipVars, conHead, dataSent, linkUp, links,
                   upGot, upSent, fetches, accepted, lateReq>>

Next ==
    \/ \E r \in Reqs : AcceptRequest(r)
    \/ \E r \in Reqs : RequestEnd(r)
    \/ RunImmediate
    \/ \E c \in Cons, head \in BOOLEAN : Connect(c, head)
    \/ \E x \in shipSq.inflight : ShipSendSettles(x)
    \/ \E n \in 1..MaxChunk : ShipData(n)
    \/ \E c \in Cons : ClientData(c)
    \/ \E c \in Cons : ClientClose(c)
    \/ \E e \in BOOLEAN : LinkClose(e)
    \/ Reconnect
    \/ OffshoreMessage
    \/ \E r \in Reqs, st \in {200, 502} : FetchDone(r, st)
    \/ \E c \in Cons : UpstreamConnect(c)
    \/ \E c \in Cons : UpstreamData(c)
    \/ \E c \in Cons, e \in BOOLEAN : UpstreamClose(c, e)

Spec == Init /\ [][Next]_vars

SndNext ==
    \/ \E t \in MessageTypes, p \in Payloads, ok \in BOOLEAN : SndEnqueue(t, p, ok)
    \/ \E x \in sq.inflight, ok \in BOOLEAN : SndWriteCallback(x, ok)
    \/ \E x \in sq.inflight, ok \in BOOLEAN : SndDrain(x, ok)
    \/ SndSocketFail

SpecSender == Init /\ [][SndNext]_vars

\* ------------------------------------------------- SpecDecoder, SpecRelink
WireMessages == [type : MessageTypes, payload : SeqsUpTo(WireBytes, MaxFramePayload)]

\* the peer encodes some messages back to back; the socket will deliver the bytes
InitDecoder ==
    SysInit /\ SndInit /\ DispInit /\ \E msgs \in SeqsUpTo(WireMessages, MaxMsgs) : DecInit(msgs)

\* sock.on("data", (chunk) => decoder.push(chunk)) with a chunk of n bytes
DecPush(n) ==
    /\ n >= 1 /\ n <= Len(unread)
    /\ LET d == parseAvailableFrames(buffer \o SubSeq(unread, 1, n))
       IN  /\ buffer' = d.rest
           /\ emitted' = emitted \o d.msgs
    /\ unread' = SubSeq(unread, n + 1, Len(unread))
    /\ fed' = fed + n
    /\ UNCHANGED <<peerMsgs, decLinks, senderVars, sysVars, disp>>

\* the link socket closes with bytes undelivered, and _connect runs again: a new
\* socket feeds the same this.decoder
DecReconnect(msgs) ==
    /\ decLinks < MaxLinks
    /\ decLinks' = decLinks + 1
    /\ peerMsgs' = msgs
    /\ unread' = FramesOf(msgs)
    /\ fed' = 0
    /\ emitted' = <<>>
    /\ UNCHANGED <<buffer, senderVars, sysVars, disp>>

DecNext == \E n \in 1..(HEADER_LENGTH + MaxFramePayload) * MaxMsgs : DecPush(n)

SpecDecoder == InitDecoder /\ [][DecNext]_vars

RelinkNext ==
    \/ \E n \in 1..(HEADER_LENGTH + MaxFramePayload) * MaxMsgs : DecPush(n)
    \/ \E msgs \in SeqsUpTo(WireMessages, MaxMsgs) : DecReconnect(msgs)

SpecRelink == InitDecoder /\ [][RelinkNext]_vars

\* ---------------------------------------------------------------- SpecOffshore
\* What parseHttpRequest makes of a REQUEST payload: the method, and the form
\* of the request target. "none" is a payload that is no HTTP request (tunnel
\* bytes): its method is whatever the bytes are and its path is undefined.
Parsed ==
    { [method |-> "GET", path |-> "absolute"],
      [method |-> "GET", path |-> "origin"],
      [method |-> "CONNECT", path |-> "authority"],
      [method |-> "other", path |-> "none"] }

\* chooseAgentAndOptions(method, path, headers): an absolute http(s) URL is
\* parsed; every other path reaches `useHttps ? ...`, a name that is declared
\* nowhere, and the call throws a ReferenceError
chooseAgentAndOptions(path) ==
    IF path = "absolute" THEN [throws |-> FALSE] ELSE [throws |-> TRUE]

DReply(q, st)  == [k |-> "reply", to |-> q, status |-> st]
DConnectOK(q)  == [k |-> "reply", to |-> q, status |-> 200]
DUpBytes(q, n) == [k |-> "tdata", to |-> q, n |-> n]
DEmpty(q)      == [k |-> "empty", to |-> q]

RECURSIVE FramesWritten(_)
FramesWritten(items) ==
    IF items = <<>> THEN <<>> ELSE <<Head(items).frame>> \o FramesWritten(Tail(items))

\* queue.enqueue(MessageType.RESPONSE, payload)
DispEnqueue(d, f) ==
    LET r == SQEnqueue(d.queue, [frame |-> f], TRUE, d.linkUp)
    IN  [d EXCEPT !.queue = r.s, !.log = @ \o FramesWritten(r.wrote)]

\* decoder.on("message"): the dispatcher receives a REQUEST frame
DispMessage(p) ==
    /\ disp.linkUp
    /\ Len(disp.got) < MaxFrames
    /\ LET q    == Len(disp.got) + 1
           tun  == disp.inTunnel /\ disp.tunnelUpstream # 0
           d    == [disp EXCEPT !.got = Append(@, [method |-> p.method, path |-> p.path,
                                                    tunnel |-> tun])]
       IN  disp' =
             IF tun THEN d   \* tunnelUpstream.write(payload)
             ELSE IF p.method = "CONNECT" THEN [d EXCEPT !.up[q] = "connecting"]
             ELSE IF chooseAgentAndOptions(p.path).throws
                  THEN \* catch: await sendMessage(socket, MessageType.RESPONSE, raw)
                       [d EXCEPT !.log = Append(@, DReply(q, 500)), !.direct = @ \cup {q}]
                  ELSE [d EXCEPT !.fetches = @ \cup {q}]
    /\ UNCHANGED <<senderVars, sysVars, decVars>>

\* upRes "end" (the origin's response) or upstreamReq "error" (502)
DispFetchDone(q, st) ==
    /\ q \in disp.fetches
    /\ disp' = DispEnqueue([disp EXCEPT !.fetches = @ \ {q}], DReply(q, st))
    /\ UNCHANGED <<senderVars, sysVars, decVars>>

\* the connect callback of net.connect
DispUpstreamConnect(q) ==
    /\ disp.up[q] = "connecting"
    /\ disp' = DispEnqueue([disp EXCEPT !.up[q] = "open", !.inTunnel = TRUE,
                                         !.tunnelUpstream = q],
                            DConnectOK(q))
    /\ UNCHANGED <<senderVars, sysVars, decVars>>

\* upstream.on("data")
DispUpstreamData(q) ==
    /\ disp.up[q] = "open"
    /\ disp.upSent[q] < MaxUpChunks
    /\ disp' = DispEnqueue([disp EXCEPT !.upSent[q] = @ + 1], DUpBytes(q, disp.upSent[q] + 1))
    /\ UNCHANGED <<senderVars, sysVars, decVars>>

\* mutant: the close handler clears the flag and keeps the socket reference
UpstreamClosedKeepsRef(d, q) == [d EXCEPT !.up[q] = "closed", !.inTunnel = FALSE]
\* upstream.on("close"): inTunnel = false; tunnelUpstream = null;
UpstreamClosed(d, q) ==
    [d EXCEPT !.up[q] = "closed", !.inTunnel = FALSE, !.tunnelUpstream = 0]

\* upstream "close", after upstream "error" (an empty RESPONSE frame) or not
DispUpstreamClose(q, withError) ==
    /\ disp.up[q] \in {"connecting", "open"}
    /\ withError \/ disp.up[q] = "open"
    /\ LET d == UpstreamClosed(disp, q)
       IN  disp' = IF withError THEN DispEnqueue(d, DEmpty(q)) ELSE d
    /\ UNCHANGED <<senderVars, sysVars, decVars>>

\* the write callback of the queue's send in flight: the writer loop goes round
DispWriteCallback(x) ==
    /\ x \in disp.queue.inflight
    /\ LET r == SQSettle(disp.queue, x, TRUE, disp.linkUp)
       IN  disp' = [disp EXCEPT !.queue = r.s, !.log = @ \o FramesWritten(r.wrote)]
    /\ UNCHANGED <<senderVars, sysVars, decVars>>

\* the write callback of a sendMessage called by the catch block
DispDirectCallback(q) ==
    /\ q \in disp.direct
    /\ disp' = [disp EXCEPT !.direct = @ \ {q}]
    /\ UNCHANGED <<senderVars, sysVars, decVars>>

\* socket.on("close"): if (tunnelUpstream) tunnelUpstream.destroy(), whose
\* close event clears inTunnel and tunnelUpstream; the sends in flight reject
DispLinkClose ==
    /\ disp.linkUp
    /\ LET t == disp.tunnelUpstream
       IN  disp' = [disp EXCEPT !.linkUp = FALSE,
                                !.up = IF t # 0 THEN [@ EXCEPT ![t] = "closed"] ELSE @,
                                !.inTunnel = IF t # 0 THEN FALSE ELSE @,
                                !.tunnelUpstream = 0,
                                !.queue = SQFailAll(@, {x \in @.inflight : ~x.dead}),
                                !.direct = {}]
    /\ UNCHANGED <<senderVars, sysVars, decVars>>

OffshoreNext ==
    \/ \E p \in Parsed : DispMessage(p)
    \/ \E q \in Frames, st \in {200, 502} : DispFetchDone(q, st)
    \/ \E q \in Frames : DispUpstreamConnect(q)
    \/ \E q \in Frames : DispUpstreamData(q)
    \/ \E q \in Frames, e \in BOOLEAN : DispUpstreamClose(q, e)
    \/ \E x \in disp.queue.inflight : DispWriteCallback(x)
    \/ \E q \in Frames : DispDirectCallback(q)
    \/ DispLinkClose

SpecOffshore == Init /\ [][OffshoreNext]_vars

\* Node calls the callback of every socket.write, with an error once the socket
\* is destroyed; drain is the peer's doing and is not assumed
SpecSenderFair ==
    SpecSender /\ WF_vars(\E x \in sq.inflight, ok \in BOOLEAN : SndWriteCallback(x, ok))

\* every socket.write ends: its callback runs, and a write that returned false
\* sees drain unless the socket fails first
SpecSenderLive ==
    /\ SpecSender
    /\ WF_vars(\E x \in sq.inflight, ok \in BOOLEAN : SndWriteCallback(x, ok))
    /\ WF_vars(\E x \in sq.inflight, ok \in BOOLEAN : SndDrain(x, ok))

\* ------------------------------------------------------------------ claims

Pos(seq, x) == CHOOSE i \in 1..Len(seq) : seq[i] = x

InFlight == {r \in Reqs : reqState[r] \in {"sending", "waiting"}}

\* C1: at most one message-mode transaction is in flight at any instant: the
\* scheduler has never started an item (REQUEST enqueued on the link sender,
\* response not yet written to the client) while another one is in that state.
C1_OneTransactionInFlight == Cardinality(InFlight) <= 1

\* a second request was enqueued in message mode while the first awaits its
\* response, and was not started
C1_Witness ==
    /\ \E r \in Reqs : reqState[r] = "waiting"
    /\ \E q \in Reqs : reqState[q] = "queued"
    /\ ~inTunnel

\* C2: the frame the scheduler treats as a transaction's response is a reply
\* the offshore produced for that transaction's own REQUEST frame.
C2_Claim ==
    \A r \in Reqs :
        \/ got[r].k \in {"none", "error"}
        \/ got[r].k = "reply" /\ got[r].to = HttpReq(r)

\* C3: transaction REQUEST frames are handed to the link in the order in which
\* the HTTP server accepted the requests.
C3_Claim ==
    \A i, j \in 1..Len(reqEmit) :
        i < j => Pos(accepted, reqEmit[i].id) < Pos(accepted, reqEmit[j].id)

\* C4: client responses are ended in the order in which the requests were
\* accepted.
C4_Claim ==
    \A i, j \in 1..Len(respLog) :
        i < j => Pos(accepted, respLog[i]) < Pos(accepted, respLog[j])

\* C5: no transaction REQUEST frame is handed to the link while a CONNECT
\* tunnel is being established or is active.
C5_Claim ==
    \A i \in 1..Len(reqEmit) : reqEmit[i].during = {}

\* C6: once in-tunnel is cleared with transactions queued and the worker idle,
\* the scheduler goes on by itself: the ship is never left in message mode with
\* a queued transaction, an idle worker and no processNext scheduled.
C6_Claim ==
    (shipUp /\ ~inTunnel /\ ~rq.processing /\ Len(rq.queue) > 0) => immediates > 0

\* C7: a link carries at most one tunnel: at most one client socket is attached
\* to the link on the ship, and the link's dispatcher on the offshore holds at
\* most one open upstream socket.
C7_Claim ==
    /\ Cardinality({c \in Cons : conState[c] = "tunnel"}) <= 1
    /\ Cardinality({c \in Cons : upState[c] = "open"}) <= 1

InSeq(seq, x) == \E i \in 1..Len(seq) : seq[i] = x

\* C8: a plain request submitted after the client of an established tunnel
\* closed is executed against its origin: its REQUEST payload is never written
\* to a tunnel upstream socket as tunnel bytes.
C8_Claim ==
    \A r \in Reqs : lateReq[r] => \A c \in Cons : ~InSeq(upGot[c], HttpReq(r))


\* C9: per MessageSendQueue at most one socket write is in flight: no frame is
\* handed to the socket while an earlier send of the queue has not settled.
C9_AtMostOneWriteInFlight == Cardinality(sq.inflight) <= 1

\* a second send was enqueued while the first was in flight, and waited
C9_Witness ==
    /\ Cardinality(sq.inflight) = 1
    /\ Len(sq.queue) >= 1
    /\ sq.isSending

Message(item) == [type |-> item.type, payload |-> item.payload]

\* C10: the bytes on the socket are exactly the frames of the enqueued
\* payloads, whole, in enqueue order: decoding the byte stream gives a prefix of
\* the enqueue log and leaves no partial frame.
C10_FramesInEnqueueOrder ==
    LET d == parseAvailableFrames(wire)
    IN  /\ d.rest = <<>>
        /\ Len(d.msgs) <= Len(enq)
        /\ \A i \in 1..Len(d.msgs) : d.msgs[i] = Message(enq[i])

\* two sends enqueued while an earlier send waited for drain have both been
\* written after it
C10_Witness ==
    /\ Len(enq) >= 3
    /\ enq[2].behindDrain /\ enq[3].behindDrain
    /\ enq[2].payload # enq[3].payload
    /\ Len(parseAvailableFrames(wire).msgs) = 3

\* C11: once the sender's socket has errored or closed, no send of that sender
\* resolves any more (the one in flight and the queued ones are rejected, none
\* is reported as sent), and every send is eventually settled.
C11_FailedSocketRejectsAll ==
    /\ [][~sockAlive' =>
            \A i \in DOMAIN outcome' :
                outcome'[i] = "resolved" => (i \in DOMAIN outcome /\ outcome[i] = "resolved")]_vars
    /\ (~sockAlive ~> (\A i \in DOMAIN outcome : outcome[i] # "pending"))

\* the socket failed while send i waited for drain with send j queued behind
\* it: j was never written, and both were rejected
C11_Witness ==
    /\ ~sockAlive
    /\ \E i, j \in DOMAIN outcome :
          /\ i < j
          /\ enq[j].behindDrain
          /\ outcome[i] = "rejected" /\ outcome[j] = "rejected"
          /\ Len(parseAvailableFrames(wire).msgs) < j

\* how many of the peer's frames have been pushed whole, given the bytes pushed
RECURSIVE WholeFrames(_, _)
WholeFrames(msgs, n) ==
    IF msgs = <<>> THEN 0
    ELSE LET total == HEADER_LENGTH + Len(Head(msgs).payload)
         IN  IF n < total THEN 0 ELSE 1 + WholeFrames(Tail(msgs), n - total)

\* C12: chunk-invariance of the decoder: however the encoded bytes of a message
\* sequence are cut into chunks, the decoder emits those messages (same types,
\* same payloads, same order) and, once every byte is fed, all of them.
C12_ChunkInvariance ==
    /\ Len(emitted) <= Len(peerMsgs)
    /\ \A i \in 1..Len(emitted) : emitted[i] = peerMsgs[i]
    /\ unread = <<>> => emitted = peerMsgs

\* three messages, an empty payload among them, were decoded from chunks one of
\* which ended inside the third frame's header
C12_Witness ==
    /\ Len(peerMsgs) = 3
    /\ \E i, j \in 1..3 : peerMsgs[i].payload = <<>> /\ peerMsgs[j].payload # <<>>
    /\ Len(emitted) = 2
    /\ Len(buffer) \in 1..(HEADER_LENGTH - 1)

\* C13: the decoder never emits a message before all 5+length bytes of its
\* frame have been fed: the messages emitted are never more than the frames
\* fed whole, an emitted payload has the advertised length, and what stays
\* buffered is a proper prefix of a frame.
C13_NoEarlyEmit ==
    /\ Len(emitted) <= WholeFrames(peerMsgs, fed)
    /\ \A i \in 1..Len(emitted) :
          i <= Len(peerMsgs) => Len(emitted[i].payload) = Len(peerMsgs[i].payload)
    /\ Len(buffer) >= HEADER_LENGTH => Len(buffer) < HEADER_LENGTH + readUInt32BE(buffer)

\* the whole header of the first frame has been fed, its payload has not:
\* nothing was emitted
C13_Witness ==
    /\ fed >= HEADER_LENGTH
    /\ Len(buffer) = fed
    /\ peerMsgs # <<>>
    /\ emitted = <<>>

\* C14: a transaction whose REQUEST frame went out on a link that has since
\* been lost (closed, after a socket error or not) has failed: the scheduler is
\* no longer waiting for its response.
C14_Claim ==
    \A i \in 1..Len(reqEmit) :
        reqState[reqEmit[i].id] = "waiting" => (linkUp /\ reqEmit[i].link = links)

\* C15: no error terminates the ship process.
C15_Claim == shipUp

\* C16: whenever the ship's link socket is closed, a reconnect is on its way:
\* the process that armed setTimeout(() => this._connect(), 1000) is running.
C16_Claim == ~linkUp => shipUp

\* C17: each transaction's REQUEST frame is handed to the link at most once: no
\* request id is emitted twice, on the same link or on a later one, and a
\* dispatched transaction is never back in the scheduler's queue.
C17_RequestSentOnce ==
    /\ \A i, j \in 1..Len(reqEmit) : i # j => reqEmit[i].id # reqEmit[j].id
    /\ \A i \in 1..Len(reqEmit) : reqState[reqEmit[i].id] \in {"sending", "waiting", "done"}
    /\ \A k \in 1..Len(rq.queue) : reqState[rq.queue[k]] = "queued"

\* a transaction dispatched on the first link failed when the link was lost;
\* after the reconnect the next transaction was dispatched on the second link
C17_Witness ==
    /\ links = 2 /\ linkUp
    /\ \E i, j \in 1..Len(reqEmit) :
          /\ reqEmit[i].link = 1 /\ got[reqEmit[i].id] = Failure
          /\ reqEmit[j].link = 2

Increasing(seq) == \A i, j \in 1..Len(seq) : i < j => seq[i].n < seq[j].n

\* C18: within a tunnel bytes keep their order in each direction: what an
\* upstream socket was written of one client's bytes (head first, then the
\* chunks) is in the order the client sent it, and what a client socket was
\* written of one upstream's chunks is in the order the upstream produced it.
C18_TunnelOrder ==
    \A c, d \in Cons :
        /\ Increasing(SelectSeq(upGot[d], LAMBDA f : f.k = "data" /\ f.id = c))
        /\ Increasing(SelectSeq(cliLog[c], LAMBDA f : f.k = "tdata" /\ f.id = d))

\* the head and a later client chunk reached the upstream socket, and an
\* upstream chunk reached the client
C18_Witness ==
    \E c \in Cons :
        /\ upGot[c] = <<HeadBytes(c), ClientBytes(c, 1)>>
        /\ InSeq(cliLog[c], UpBytes(c, 1))

\* C19: while a tunnel is attached and its link has never been lost, every
\* RESPONSE frame its upstream produced and the link has delivered to the ship
\* has been written to the tunnel's client socket.
C19_Claim ==
    \A c \in Cons :
        (conState[c] = "tunnel" /\ linkUp /\ links = 1) =>
            \A n \in 1..upSent[c] :
                InSeq(o2s, UpBytes(c, n)) \/ InSeq(cliLog[c], UpBytes(c, n))

\* C20: after a reconnect the decoder starts the new link with an empty
\* buffer, so the first bytes of the new link are read as a frame header.
C20_Claim == (decLinks > 1 /\ fed = 0) => buffer = <<>>

\* C21: when the link drops, no transaction is left waiting in the ship's FIFO
\* queue: every queued item has been removed and failed.
C21_Claim ==
    [][(linkUp /\ ~linkUp' /\ shipUp') => rq'.queue = <<>>]_vars

\* C22: once the link has closed and the sends it interrupted have settled,
\* in-tunnel is clear and no tunnel is left being established or active: the
\* client socket of each has been ended, during the CONNECT handshake as well
\* as during forwarding.
C22_Claim ==
    (shipUp /\ ~linkUp /\ shipSq.inflight = {}) =>
        /\ ~inTunnel
        /\ \A c \in Cons : ~TunnelLive(conState[c])

\* C26: ship and offshore agree on the link mode: the offshore never writes
\* the payload of a message-mode HTTP transaction to a tunnel upstream socket,
\* and never parses tunnel bytes forwarded by the ship as an HTTP request (the
\* parse ends in a 500 reply to those bytes).
C26_Claim ==
    /\ \A c \in Cons : \A i \in 1..Len(upGot[c]) : upGot[c][i].k # "http"
    /\ \A i \in 1..Len(o2s) : o2s[i].k = "reply" => o2s[i].to.k # "data"

\* C27: at most one consumer is registered on the ship for the next RESPONSE
\* frame: the scheduler worker, a CONNECT handshake, or a tunnel's forwarder.
C27_Claim == Len(listeners) <= 1

\* C23: once an offshore link socket has closed, no upstream socket opened on
\* behalf of that link is still connecting or open.
C23_Claim ==
    ~disp.linkUp => \A q \in Frames : disp.up[q] \notin {"connecting", "open"}

\* C24: the first RESPONSE frame the offshore emits for a CONNECT request is
\* the 200 reply of a connected upstream or, when the connection could not be
\* opened, a 502 Bad Gateway response.
C24_Claim ==
    \A i \in 1..Len(disp.log) :
        LET q == disp.log[i].to
        IN  (disp.got[q].method = "CONNECT" /\ \A j \in 1..(i - 1) : disp.log[j].to # q)
                => disp.log[i] \in {DConnectOK(q), DReply(q, 502)}

\* C25: a non-CONNECT request in origin-form with a Host header, received in
\* message mode, is answered with what the fetch gave (the origin's response,
\* or 502 when the origin failed), never with a synthesized 500.
C25_Claim ==
    \A i \in 1..Len(disp.log) :
        LET q == disp.log[i].to
        IN  (disp.got[q].path = "origin" /\ ~disp.got[q].tunnel) => disp.log[i] # DReply(q, 500)

\* the RESPONSE frames written for REQUEST frame q that are not tunnel data
RepliesTo(q) == {i \in 1..Len(disp.log) : disp.log[i].to = q /\ disp.log[i].k # "tdata"}

\* nothing the dispatcher started for REQUEST frame q is still under way
Settled(q) ==
    /\ q \notin disp.fetches
    /\ q \notin disp.direct
    /\ disp.up[q] # "connecting"
    /\ disp.queue.queue = <<>> /\ disp.queue.inflight = {}

\* C28: for every REQUEST frame received outside tunnel mode the offshore
\* emits exactly one reply RESPONSE frame: never two, not zero once the work
\* started for the frame is over, and a tunnel data frame only after the 200
\* reply of its CONNECT.
C28_Claim ==
    /\ \A q \in 1..Len(disp.got) :
          ~disp.got[q].tunnel =>
              /\ Cardinality(RepliesTo(q)) <= 1
              /\ (disp.linkUp /\ Settled(q)) => Cardinality(RepliesTo(q)) = 1
    /\ \A i \in 1..Len(disp.log) :
          disp.log[i].k = "tdata" =>
              \E j \in 1..(i - 1) : disp.log[j] = DConnectOK(disp.log[i].to)

\* C29: every RESPONSE frame goes through the link's MessageSendQueue, so at
\* most one socket write is in flight on the offshore side of a link.
C29_Claim ==
    Cardinality({x \in disp.queue.inflight : ~x.dead}) + Cardinality(disp.direct) <= 1

\* C30: whenever a MessageSendQueue's queue is non-empty its writer loop is
\* running with a send in flight, and every enqueued send eventually settles,
\* given that every socket write completes, drains or fails.
C30_SenderProgress ==
    /\ [](Len(sq.queue) > 0 => (sq.isSending /\ sq.inflight # {}))
    /\ \A i \in 1..MaxSends :
          (Len(outcome) >= i) ~> (Len(outcome) >= i /\ outcome[i] # "pending")

\* a send enqueued behind one that waited for drain was written and resolved
\* after the writer had gone idle and been started again
C30_Witness ==
    /\ sockAlive
    /\ ~sq.isSending
    /\ \E i, j \in DOMAIN outcome :
          /\ i < j
          /\ enq[j].behindDrain
          /\ outcome[i] = "resolved" /\ outcome[j] = "resolved"
          /\ Len(parseAvailableFrames(wire).msgs) >= j

\* C31: in every reachable state of a link's offshore dispatcher, inTunnel is
\* true exactly when tunnelUpstream is non-null, whatever the interleaving of
\* CONNECT requests and upstream connect, error and close events.
C31_TunnelFlagMatchesUpstream == disp.inTunnel <=> disp.tunnelUpstream # 0

\* two CONNECTs were in progress together: both upstreams opened, and one has
\* closed since, which cleared the flag and the reference while the other
\* upstream is still open
C31_Witness ==
    \E q, r \in Frames :
        /\ q # r
        /\ disp.up[q] = "open" /\ disp.up[r] = "closed"
        /\ DConnectOK(q) \in {disp.log[i] : i \in 1..Len(disp.log)}
        /\ DConnectOK(r) \in {disp.log[i] : i \in 1..Len(disp.log)}
        /\ disp.linkUp /\ ~disp.inTunnel /\ disp.tunnelUpstream = 0

====
